---- MODULE Spec2Model ----
(***************************************************************************)
(* Model of the gvasm command-line front end (src/main.ts): the five       *)
(* per-command argument validators and the dispatcher `main`.              *)
(*                                                                         *)
(* Strings are sequences of one-character strings, so that lengths,        *)
(* substr, the split at "=", parseInt and the extension of a path are      *)
(* computed and not assumed.  An optional value (undefined in the source)  *)
(* is None, a present one Some(v).                                         *)
(***************************************************************************)
EXTENDS Integers, Sequences, FiniteSets, TLC

VARIABLES args, pc, a, badArgs, ret, stdout, stderr, calls, promise, exit

vars == <<args, pc, a, badArgs, ret, stdout, stderr, calls, promise, exit>>

\* --------------------------------------------------------------------------
\* Bounds of the model
\* --------------------------------------------------------------------------
MaxInitArgs == 3
MaxDefArgs == 5
MaxOutArgs == 3
MaxItestArgs == 4
MaxCode == 2

\* --------------------------------------------------------------------------
\* Optional values and string helpers
\* --------------------------------------------------------------------------
None == [set |-> FALSE, val |-> <<>>]
Some(v) == [set |-> TRUE, val |-> v]

\* x ?? d
Coalesce(x, d) == IF x.set THEN x.val ELSE d

\* `${x}` of a possibly undefined string
Template(x) == IF x.set THEN x.val ELSE <<"u","n","d","e","f","i","n","e","d">>

\* s.substr(from0, n) with from0 = 0
substr(s, n) == SubSeq(s, 1, IF Len(s) < n THEN Len(s) ELSE n)

RECURSIVE IndexOf(_, _, _)
\* least index >= i of character c in s, 0 if none
IndexOf(s, c, i) ==
  IF i > Len(s) THEN 0
  ELSE IF s[i] = c THEN i
  ELSE IndexOf(s, c, i + 1)

RECURSIVE LastIndexOf(_, _, _)
\* greatest index <= i of character c in s, 0 if none
LastIndexOf(s, c, i) ==
  IF i < 1 THEN 0
  ELSE IF s[i] = c THEN i
  ELSE LastIndexOf(s, c, i - 1)

Digits == {"0","1","2","3","4","5","6","7","8","9"}

DigitVal(c) ==
  CASE c = "0" -> 0 [] c = "1" -> 1 [] c = "2" -> 2 [] c = "3" -> 3
    [] c = "4" -> 4 [] c = "5" -> 5 [] c = "6" -> 6 [] c = "7" -> 7
    [] c = "8" -> 8 [] c = "9" -> 9

RECURSIVE DigitPrefix(_, _, _)
\* the number read from the digits of s starting at index i, stopping at the
\* first character that is not a digit; seen is FALSE when no digit was read
DigitPrefix(s, i, acc) ==
  IF i > Len(s) \/ s[i] \notin Digits THEN acc
  ELSE DigitPrefix(s, i + 1, [seen |-> TRUE, n |-> acc.n * 10 + DigitVal(s[i])])

\* parseInt(s, 10): optional sign, then the longest prefix of digits;
\* NaN when there is no digit
parseInt(s) ==
  LET neg == Len(s) >= 1 /\ s[1] = "-"
      start == IF Len(s) >= 1 /\ s[1] \in {"-", "+"} THEN 2 ELSE 1
      d == DigitPrefix(s, start, [seen |-> FALSE, n |-> 0])
  IN IF d.seen THEN [nan |-> FALSE, n |-> IF neg THEN 0 - d.n ELSE d.n]
     ELSE [nan |-> TRUE, n |-> 0]

\* --------------------------------------------------------------------------
\* Flag parser (argParse of deps.ts)
\* --------------------------------------------------------------------------
\* spelling of the canonical flag names
Spell ==
  [help |-> <<"h","e","l","p">>,
   overwrite |-> <<"o","v","e","r","w","r","i","t","e">>,
   title |-> <<"t","i","t","l","e">>,
   initials |-> <<"i","n","i","t","i","a","l","s">>,
   maker |-> <<"m","a","k","e","r">>,
   version |-> <<"v","e","r","s","i","o","n">>,
   region |-> <<"r","e","g","i","o","n">>,
   code |-> <<"c","o","d","e">>,
   output |-> <<"o","u","t","p","u","t">>,
   define |-> <<"d","e","f","i","n","e">>,
   execute |-> <<"e","x","e","c","u","t","e">>,
   watch |-> <<"w","a","t","c","h">>,
   format |-> <<"f","o","r","m","a","t">>]

NoKey == <<>>

\* the callback each validator passes as `unknown`: a flag (key given) is
\* reported, marks the parse as bad and is dropped; an operand is kept
unknown(arg, key) ==
  IF key # NoKey
  THEN [keep |-> FALSE, bad |-> TRUE,
        err |-> <<[msg |-> "Unknown argument: -", val |-> key]>>]
  ELSE [keep |-> TRUE, bad |-> FALSE, err |-> <<>>]

IsLongFlag(tok) == Len(tok) >= 3 /\ tok[1] = "-" /\ tok[2] = "-"
IsShortFlag(tok) == Len(tok) >= 2 /\ tok[1] = "-" /\ tok[2] # "-"
IsFlag(tok) == IsLongFlag(tok) \/ IsShortFlag(tok)

Known(flags) == flags.string \cup flags.boolean

\* canonical name of the key spelled keyS, "" when the schema has none
Canonical(keyS, flags) ==
  IF Len(keyS) = 1 /\ keyS[1] \in DOMAIN flags.alias
  THEN flags.alias[keyS[1]]
  ELSE IF \E n \in Known(flags) : Spell[n] = keyS
  THEN CHOOSE n \in Known(flags) : Spell[n] = keyS
  ELSE ""

\* the raw map before any token is read: booleans false, the rest undefined
EmptyArgs(flags) ==
  [n \in Known(flags) \cup {"_"} |->
     IF n = "_" THEN <<>>
     ELSE IF n \in flags.boolean THEN FALSE
     ELSE None]

SetArg(m, n, v, flags) ==
  IF n \in flags.collect
  THEN [m EXCEPT ![n] = IF m[n].set THEN Some(Append(m[n].val, v)) ELSE Some(<<v>>)]
  ELSE [m EXCEPT ![n] = Some(v)]

RECURSIVE argParseFrom(_, _, _, _)
argParseFrom(argv, i, flags, st) ==
  IF i > Len(argv) THEN st
  ELSE
    LET arg == argv[i]
        body == IF IsLongFlag(arg) THEN SubSeq(arg, 3, Len(arg)) ELSE SubSeq(arg, 2, Len(arg))
        eq == IF IsLongFlag(arg) THEN IndexOf(body, "=", 2) ELSE 0
        keyS == IF eq > 0 THEN SubSeq(body, 1, eq - 1) ELSE body
        n == Canonical(keyS, flags)
        hasNext == i < Len(argv) /\ ~(Len(argv[i + 1]) >= 1 /\ argv[i + 1][1] = "-")
    IN
    IF ~IsFlag(arg) THEN
      \* an operand
      LET u == unknown(arg, NoKey)
          kept == IF u.keep THEN [st.m EXCEPT !["_"] = Append(@, arg)] ELSE st.m
      IN IF flags.stopEarly
         THEN [st EXCEPT !.m = [kept EXCEPT !["_"] = @ \o SubSeq(argv, i + 1, Len(argv))]]
         ELSE argParseFrom(argv, i + 1, flags, [st EXCEPT !.m = kept])
    ELSE IF n = "" THEN
      \* an unrecognized flag
      LET u == unknown(arg, keyS)
      IN argParseFrom(argv, i + 1, flags,
           [st EXCEPT !.badArgs = @ \/ u.bad, !.err = @ \o u.err])
    ELSE IF n \in flags.boolean THEN
      argParseFrom(argv, i + 1, flags, [st EXCEPT !.m = [@ EXCEPT ![n] = TRUE]])
    ELSE IF eq > 0 THEN
      \* --name=value
      argParseFrom(argv, i + 1, flags,
        [st EXCEPT !.m = SetArg(@, n, SubSeq(body, eq + 1, Len(body)), flags)])
    ELSE IF hasNext THEN
      \* the following token is the value
      argParseFrom(argv, i + 2, flags, [st EXCEPT !.m = SetArg(@, n, argv[i + 1], flags)])
    ELSE
      \* a string flag without a value is the empty string
      argParseFrom(argv, i + 1, flags, [st EXCEPT !.m = SetArg(@, n, <<>>, flags)])

argParse(argv, flags) ==
  argParseFrom(argv, 1, flags, [m |-> EmptyArgs(flags), badArgs |-> FALSE, err |-> <<>>])

\* --------------------------------------------------------------------------
\* Results of a validator
\* --------------------------------------------------------------------------
\* a validator returns a number (an exit code) or a descriptor
Num(n) == [isNum |-> TRUE, num |-> n, args |-> <<>>]
Desc(d) == [isNum |-> FALSE, num |-> 0, args |-> d]

Msg(text, v) == [msg |-> text, val |-> v]

\* what one run of a validator leaves behind: the raw map, the flag of its
\* `unknown` callback, what it printed, and its return value
Outcome(p, out, err, r) ==
  [a |-> p.m, badArgs |-> p.badArgs, out |-> out, err |-> p.err \o err, ret |-> r]

S_Game == <<"G","a","m","e">>
S_AA == <<"A","A">>
S_77 == <<"7","7">>
S_0 == <<"0">>
S_E == <<"E">>
S_C == <<"C">>
S_gba == <<"g","b","a">>
S_bin == <<"b","i","n">>
Ext_gba == <<".","g","b","a">>
Ext_gvasm == <<".","g","v","a","s","m">>

\* --------------------------------------------------------------------------
\* init
\* --------------------------------------------------------------------------
InitFlags ==
  [string |-> {"title", "initials", "maker", "version", "region", "code"},
   boolean |-> {"help", "overwrite"},
   collect |-> {},
   alias |-> [h |-> "help", t |-> "title", i |-> "initials", m |-> "maker",
              v |-> "version", r |-> "region", c |-> "code"],
   stopEarly |-> FALSE]

\* parseInitArgs without the check of the maker's length
parseInitArgs_NoMakerCheck(argv) ==
  LET p == argParse(argv, InitFlags)
      m == p.m
      output == m["_"][1]
      title == Coalesce(m.title, S_Game)
      initials == Coalesce(m.initials, substr(Template(m.title) \o S_AA, 2))
      maker == Coalesce(m.maker, S_77)
      version == parseInt(Coalesce(m.version, S_0))
      region == Coalesce(m.region, S_E)
      code == Coalesce(m.code, S_C)
  IN
  IF p.badArgs THEN Outcome(p, <<>>, <<>>, Num(1))
  ELSE IF m.help THEN Outcome(p, <<"InitHelp">>, <<>>, Num(0))
  ELSE IF Len(m["_"]) <= 0 THEN
    Outcome(p, <<>>, <<Msg("Missing output file", <<>>)>>, Num(1))
  ELSE IF Len(m["_"]) > 1 THEN
    Outcome(p, <<>>, <<Msg("Can only have one output file", <<>>)>>, Num(1))
  ELSE IF Len(title) > 12 THEN
    Outcome(p, <<>>, <<Msg("Invalid title", title)>>, Num(1))
  ELSE IF Len(initials) # 2 THEN
    Outcome(p, <<>>, <<Msg("Invalid initials", initials)>>, Num(1))
  ELSE IF version.nan \/ version.n < 0 \/ version.n > 255 THEN
    Outcome(p, <<>>, <<Msg("Invalid version", version)>>, Num(1))
  ELSE IF Len(region) # 1 THEN
    Outcome(p, <<>>, <<Msg("Invalid region", region)>>, Num(1))
  ELSE IF Len(code) # 1 THEN
    Outcome(p, <<>>, <<Msg("Invalid code", code)>>, Num(1))
  ELSE
    Outcome(p, <<>>, <<>>,
      Desc([output |-> output, title |-> title, initials |-> initials,
            maker |-> maker, version |-> version.n, region |-> region,
            code |-> code, overwrite |-> m.overwrite]))

parseInitArgs(argv) ==
  LET p == argParse(argv, InitFlags)
      m == p.m
      output == m["_"][1]
      title == Coalesce(m.title, S_Game)
      initials == Coalesce(m.initials, substr(Template(m.title) \o S_AA, 2))
      maker == Coalesce(m.maker, S_77)
      version == parseInt(Coalesce(m.version, S_0))
      region == Coalesce(m.region, S_E)
      code == Coalesce(m.code, S_C)
  IN
  IF p.badArgs THEN Outcome(p, <<>>, <<>>, Num(1))
  ELSE IF m.help THEN Outcome(p, <<"InitHelp">>, <<>>, Num(0))
  ELSE IF Len(m["_"]) <= 0 THEN
    Outcome(p, <<>>, <<Msg("Missing output file", <<>>)>>, Num(1))
  ELSE IF Len(m["_"]) > 1 THEN
    Outcome(p, <<>>, <<Msg("Can only have one output file", <<>>)>>, Num(1))
  ELSE IF Len(title) > 12 THEN
    Outcome(p, <<>>, <<Msg("Invalid title", title)>>, Num(1))
  ELSE IF Len(initials) # 2 THEN
    Outcome(p, <<>>, <<Msg("Invalid initials", initials)>>, Num(1))
  ELSE IF Len(maker) # 2 THEN
    Outcome(p, <<>>, <<Msg("Invalid maker", maker)>>, Num(1))
  ELSE IF version.nan \/ version.n < 0 \/ version.n > 255 THEN
    Outcome(p, <<>>, <<Msg("Invalid version", version)>>, Num(1))
  ELSE IF Len(region) # 1 THEN
    Outcome(p, <<>>, <<Msg("Invalid region", region)>>, Num(1))
  ELSE IF Len(code) # 1 THEN
    Outcome(p, <<>>, <<Msg("Invalid code", code)>>, Num(1))
  ELSE
    Outcome(p, <<>>, <<>>,
      Desc([output |-> output, title |-> title, initials |-> initials,
            maker |-> maker, version |-> version.n, region |-> region,
            code |-> code, overwrite |-> m.overwrite]))

\* --------------------------------------------------------------------------
\* defines (lexKeyValue of lexer.ts, parseDefines)
\* --------------------------------------------------------------------------
\* an optional "-" and then digits only, at least one
IsIntLiteral(s) ==
  LET start == IF Len(s) >= 1 /\ s[1] = "-" THEN 2 ELSE 1
  IN /\ Len(s) >= start
     /\ \A k \in start..Len(s) : s[k] \in Digits

\* NAME=VALUE split at the first "="; NAME must not be empty; VALUE is an
\* integer when it is an integer literal and the text otherwise
lexKeyValue(def) ==
  LET eq == IndexOf(def, "=", 1)
      text == SubSeq(def, eq + 1, Len(def))
  IN IF eq <= 1 THEN [ok |-> FALSE, kv |-> <<>>]
     ELSE [ok |-> TRUE,
           kv |-> [name |-> SubSeq(def, 1, eq - 1),
                   value |-> IF IsIntLiteral(text)
                             THEN [isInt |-> TRUE, num |-> parseInt(text).n, str |-> <<>>]
                             ELSE [isInt |-> FALSE, num |-> 0, str |-> text]]]

RECURSIVE parseDefinesFrom_SkipInvalid(_, _, _)
\* parseDefines that drops an invalid define and goes on
parseDefinesFrom_SkipInvalid(defines, i, result) ==
  IF i > Len(defines) THEN [ok |-> TRUE, result |-> result, err |-> <<>>]
  ELSE LET kv == lexKeyValue(defines[i])
       IN IF ~kv.ok
          THEN parseDefinesFrom_SkipInvalid(defines, i + 1, result)
          ELSE parseDefinesFrom_SkipInvalid(defines, i + 1, Append(result, kv.kv))

RECURSIVE parseDefinesFrom(_, _, _)
parseDefinesFrom(defines, i, result) ==
  IF i > Len(defines) THEN [ok |-> TRUE, result |-> result, err |-> <<>>]
  ELSE LET kv == lexKeyValue(defines[i])
       IN IF ~kv.ok
          THEN [ok |-> FALSE, result |-> <<>>,
                err |-> <<Msg("Invalid define: ", defines[i])>>]
          ELSE parseDefinesFrom(defines, i + 1, Append(result, kv.kv))

parseDefines(defines) == parseDefinesFrom(defines, 1, <<>>)

\* --------------------------------------------------------------------------
\* Path.replaceExt of deps.ts
\* --------------------------------------------------------------------------
\* the trailing extension starts at the last "." of the last path component,
\* when that "." is not the component's first character
replaceExt(path, ext) ==
  LET slash == LastIndexOf(path, "/", Len(path))
      dot == LastIndexOf(path, ".", Len(path))
  IN IF dot > slash + 1 THEN SubSeq(path, 1, dot - 1) \o ext ELSE path \o ext

\* --------------------------------------------------------------------------
\* make
\* --------------------------------------------------------------------------
MakeFlags ==
  [string |-> {"output", "define", "execute"},
   boolean |-> {"help", "watch"},
   collect |-> {"define"},
   alias |-> [h |-> "help", o |-> "output", d |-> "define", w |-> "watch",
              x |-> "execute"],
   stopEarly |-> FALSE]

\* parseMakeArgs that always derives the output from the input
parseMakeArgs_IgnoreOutput(argv) ==
  LET p == argParse(argv, MakeFlags)
      m == p.m
      input == m["_"][1]
      output == m.output
      watch == m.watch
      defines == IF m.define.set THEN parseDefines(m.define.val)
                 ELSE [ok |-> TRUE, result |-> <<>>, err |-> <<>>]
      execute == m.execute   \* None stands for `false`
  IN
  IF p.badArgs THEN Outcome(p, <<>>, <<>>, Num(1))
  ELSE IF m.help THEN Outcome(p, <<"MakeHelp">>, <<>>, Num(0))
  ELSE IF Len(m["_"]) <= 0 THEN
    Outcome(p, <<>>, <<Msg("Missing input file", <<>>)>>, Num(1))
  ELSE IF Len(m["_"]) > 1 THEN
    Outcome(p, <<>>, <<Msg("Can only have one input file", <<>>)>>, Num(1))
  ELSE IF ~defines.ok THEN Outcome(p, <<>>, defines.err, Num(1))
  ELSE
    Outcome(p, <<>>, <<>>,
      Desc([input |-> input,
            output |-> replaceExt(input, Ext_gba),
            defines |-> defines.result,
            watch |-> watch,
            execute |-> execute]))

parseMakeArgs(argv) ==
  LET p == argParse(argv, MakeFlags)
      m == p.m
      input == m["_"][1]
      output == m.output
      watch == m.watch
      defines == IF m.define.set THEN parseDefines(m.define.val)
                 ELSE [ok |-> TRUE, result |-> <<>>, err |-> <<>>]
      execute == m.execute   \* None stands for `false`
  IN
  IF p.badArgs THEN Outcome(p, <<>>, <<>>, Num(1))
  ELSE IF m.help THEN Outcome(p, <<"MakeHelp">>, <<>>, Num(0))
  ELSE IF Len(m["_"]) <= 0 THEN
    Outcome(p, <<>>, <<Msg("Missing input file", <<>>)>>, Num(1))
  ELSE IF Len(m["_"]) > 1 THEN
    Outcome(p, <<>>, <<Msg("Can only have one input file", <<>>)>>, Num(1))
  ELSE IF ~defines.ok THEN Outcome(p, <<>>, defines.err, Num(1))
  ELSE
    Outcome(p, <<>>, <<>>,
      Desc([input |-> input,
            output |-> Coalesce(output, replaceExt(input, Ext_gba)),
            defines |-> defines.result,
            watch |-> watch,
            execute |-> execute]))

\* --------------------------------------------------------------------------
\* run
\* --------------------------------------------------------------------------
RunFlags ==
  [string |-> {"define"},
   boolean |-> {"help", "watch"},
   collect |-> {"define"},
   alias |-> [h |-> "help", d |-> "define", w |-> "watch"],
   stopEarly |-> FALSE]

parseRunArgs(argv) ==
  LET p == argParse(argv, RunFlags)
      m == p.m
      input == m["_"][1]
      defines == IF m.define.set THEN parseDefines(m.define.val)
                 ELSE [ok |-> TRUE, result |-> <<>>, err |-> <<>>]
  IN
  IF p.badArgs THEN Outcome(p, <<>>, <<>>, Num(1))
  ELSE IF m.help THEN Outcome(p, <<"RunHelp">>, <<>>, Num(0))
  ELSE IF Len(m["_"]) <= 0 THEN
    Outcome(p, <<>>, <<Msg("Missing input file", <<>>)>>, Num(1))
  ELSE IF Len(m["_"]) > 1 THEN
    Outcome(p, <<>>, <<Msg("Can only have one input file", <<>>)>>, Num(1))
  ELSE IF ~defines.ok THEN Outcome(p, <<>>, defines.err, Num(1))
  ELSE Outcome(p, <<>>, <<>>, Desc([input |-> input, defines |-> defines.result]))

\* --------------------------------------------------------------------------
\* dis
\* --------------------------------------------------------------------------
DisFlags ==
  [string |-> {"output", "format"},
   boolean |-> {"help"},
   collect |-> {},
   alias |-> [h |-> "help", o |-> "output", f |-> "format"],
   stopEarly |-> FALSE]

\* parseDisArgs without the check for more than one input
parseDisArgs_ManyInputs(argv) ==
  LET p == argParse(argv, DisFlags)
      m == p.m
      input == m["_"][1]
      format == Coalesce(m.format, S_gba)
      output == m.output
  IN
  IF p.badArgs THEN Outcome(p, <<>>, <<>>, Num(1))
  ELSE IF m.help THEN Outcome(p, <<"DisHelp">>, <<>>, Num(0))
  ELSE IF Len(m["_"]) <= 0 THEN
    Outcome(p, <<>>, <<Msg("Missing input file", <<>>)>>, Num(1))
  ELSE IF format # S_gba /\ format # S_bin THEN
    Outcome(p, <<>>, <<Msg("Invalid format", format)>>, Num(1))
  ELSE
    Outcome(p, <<>>, <<>>,
      Desc([input |-> input, format |-> format,
            output |-> Coalesce(output, replaceExt(input, Ext_gvasm))]))

\* parseDisArgs without the check of the format
parseDisArgs_AnyFormat(argv) ==
  LET p == argParse(argv, DisFlags)
      m == p.m
      input == m["_"][1]
      format == Coalesce(m.format, S_gba)
      output == m.output
  IN
  IF p.badArgs THEN Outcome(p, <<>>, <<>>, Num(1))
  ELSE IF m.help THEN Outcome(p, <<"DisHelp">>, <<>>, Num(0))
  ELSE IF Len(m["_"]) <= 0 THEN
    Outcome(p, <<>>, <<Msg("Missing input file", <<>>)>>, Num(1))
  ELSE IF Len(m["_"]) > 1 THEN
    Outcome(p, <<>>, <<Msg("Can only have one input file", <<>>)>>, Num(1))
  ELSE
    Outcome(p, <<>>, <<>>,
      Desc([input |-> input, format |-> format,
            output |-> Coalesce(output, replaceExt(input, Ext_gvasm))]))

parseDisArgs(argv) ==
  LET p == argParse(argv, DisFlags)
      m == p.m
      input == m["_"][1]
      format == Coalesce(m.format, S_gba)
      output == m.output
  IN
  IF p.badArgs THEN Outcome(p, <<>>, <<>>, Num(1))
  ELSE IF m.help THEN Outcome(p, <<"DisHelp">>, <<>>, Num(0))
  ELSE IF Len(m["_"]) <= 0 THEN
    Outcome(p, <<>>, <<Msg("Missing input file", <<>>)>>, Num(1))
  ELSE IF Len(m["_"]) > 1 THEN
    Outcome(p, <<>>, <<Msg("Can only have one input file", <<>>)>>, Num(1))
  ELSE IF format # S_gba /\ format # S_bin THEN
    Outcome(p, <<>>, <<Msg("Invalid format", format)>>, Num(1))
  ELSE
    Outcome(p, <<>>, <<>>,
      Desc([input |-> input, format |-> format,
            output |-> Coalesce(output, replaceExt(input, Ext_gvasm))]))

\* --------------------------------------------------------------------------
\* itest
\* --------------------------------------------------------------------------
\* the itest schema without stopEarly
ItestFlags_Greedy ==
  [string |-> {},
   boolean |-> {"help"},
   collect |-> {},
   alias |-> [h |-> "help"],
   stopEarly |-> FALSE]

ItestFlags ==
  [string |-> {},
   boolean |-> {"help"},
   collect |-> {},
   alias |-> [h |-> "help"],
   stopEarly |-> TRUE]

\* parseItestArgs without the test of a.help
parseItestArgs_NoHelp(argv) ==
  LET p == argParse(argv, ItestFlags)
      m == p.m
  IN
  IF p.badArgs THEN Outcome(p, <<>>, <<>>, Num(1))
  ELSE Outcome(p, <<>>, <<>>, Desc([filters |-> m["_"]]))

parseItestArgs(argv) ==
  LET p == argParse(argv, ItestFlags)
      m == p.m
  IN
  IF p.badArgs THEN Outcome(p, <<>>, <<>>, Num(1))
  ELSE IF m.help THEN Outcome(p, <<"ItestHelp">>, <<>>, Num(0))
  ELSE Outcome(p, <<>>, <<>>, Desc([filters |-> m["_"]]))

\* --------------------------------------------------------------------------
\* Argument vectors
\* --------------------------------------------------------------------------
C_init == <<"i","n","i","t">>
C_make == <<"m","a","k","e">>
C_run == <<"r","u","n">>
C_dis == <<"d","i","s">>
C_itest == <<"i","t","e","s","t">>
C_bogus == <<"b","o","g","u","s">>

T_h == <<"-","h">>
T_help == <<"-","-","h","e","l","p">>
T_v == <<"-","v">>
T_version == <<"-","-","v","e","r","s","i","o","n">>
T_z == <<"-","z">>
T_overwrite == <<"-","-","o","v","e","r","w","r","i","t","e">>
T_t == <<"-","t">>
T_i == <<"-","i">>
T_m == <<"-","m">>
T_r == <<"-","r">>
T_c == <<"-","c">>
T_d == <<"-","d">>
T_w == <<"-","w">>
T_watch == <<"-","-","w","a","t","c","h">>
T_o == <<"-","o">>
T_x == <<"-","x">>
T_f == <<"-","f">>
T_output_r == <<"-","-","o","u","t","p","u","t","=","r">>

V_x == <<"x">>
V_AB == <<"A","B">>
V_Long == <<"T","h","i","s","T","i","t","l","e","I","s","W","a">>
V_256 == <<"2","5","6">>
V_7 == <<"7">>
V_a == <<"a">>
V_F1 == <<"F","=","1">>
V_Fb == <<"F","=","b">>
V_eqb == <<"=","b">>
V_agv == <<"a",".","g","v">>
V_dxb == <<"d",".","x","/","b">>
V_q == <<"q">>
V_xyz == <<"x","y","z">>
V_foo == <<"f","o","o">>
V_bar == <<"b","a","r">>

InitTextPool == {V_x, V_AB, V_Long, T_t, T_i, T_m, T_h}
InitCodePool == {V_x, V_AB, V_256, V_7, T_v, T_r, T_c, T_overwrite, T_z, T_h}
DefPool == {V_a, T_d, V_F1, V_Fb, T_h}
MakePool == {V_agv, V_dxb, T_o, V_q, T_output_r, T_w, T_x, T_h, T_z}
RunPool == {V_agv, T_w, T_watch, T_h, T_z, T_d, V_F1, V_eqb}
DisPool == {V_agv, V_dxb, T_o, V_q, T_output_r, T_f, S_bin, V_xyz, T_h, T_z}
ItestPool == {V_foo, V_bar, T_h, T_help, T_z}

SeqsUpTo(S, n) == UNION {[1..k -> S] : k \in 0..n}

WithCommand(c, tails) == {<<c>> \o t : t \in tails}

TopVectors ==
  {<<>>, <<T_h>>, <<T_help>>, <<T_v>>, <<T_version>>, <<C_bogus>>,
   <<T_h, C_init>>, <<T_version, V_x>>, <<C_bogus, T_h>>, <<V_x, C_make>>}

ArgVectors ==
  TopVectors
  \cup WithCommand(C_init, SeqsUpTo(InitTextPool, MaxInitArgs) \cup SeqsUpTo(InitCodePool, MaxInitArgs))
  \cup WithCommand(C_make, SeqsUpTo(DefPool, MaxDefArgs) \cup SeqsUpTo(MakePool, MaxOutArgs))
  \cup WithCommand(C_run, SeqsUpTo(RunPool, MaxOutArgs))
  \cup WithCommand(C_dis, SeqsUpTo(DisPool, MaxOutArgs))
  \cup WithCommand(C_itest, SeqsUpTo(ItestPool, MaxItestArgs))

\* exit codes a collaborator may produce
CollabCodes == 0..MaxCode

\* main has not returned yet
NoExit == 0 - 1

\* --------------------------------------------------------------------------
\* The dispatcher
\* --------------------------------------------------------------------------
Init ==
  /\ args \in ArgVectors
  /\ pc = "start"
  /\ a = [_ |-> <<>>]
  /\ badArgs = FALSE
  /\ ret = Num(NoExit)
  /\ stdout = <<>>
  /\ stderr = <<>>
  /\ calls = <<>>
  /\ promise = [state |-> "none", code |-> NoExit]
  /\ exit = NoExit

\* main, from the test of args[0] to the return of a number or the call of
\* the collaborator fn with the descriptor
Dispatch(fn, o) ==
  /\ a' = o.a
  /\ badArgs' = o.badArgs
  /\ ret' = o.ret
  /\ stdout' = stdout \o o.out
  /\ stderr' = stderr \o o.err
  /\ IF o.ret.isNum
     THEN /\ pc' = "done"
          /\ exit' = o.ret.num
          /\ UNCHANGED <<calls, promise>>
     ELSE /\ pc' = "await"
          /\ calls' = Append(calls, [fn |-> fn, args |-> o.ret.args])
          /\ promise' = [state |-> "pending", code |-> NoExit]
          /\ UNCHANGED exit
  /\ UNCHANGED args

MainHelp ==
  /\ pc = "start"
  /\ IF Len(args) <= 0 THEN TRUE ELSE args[1] \in {T_h, T_help}
  /\ stdout' = stdout \o <<"Version", "", "Help">>
  /\ exit' = 0
  /\ pc' = "done"
  /\ UNCHANGED <<args, a, badArgs, ret, stderr, calls, promise>>

MainVersion ==
  /\ pc = "start"
  /\ Len(args) > 0
  /\ args[1] \in {T_v, T_version}
  /\ stdout' = stdout \o <<"Version">>
  /\ exit' = 0
  /\ pc' = "done"
  /\ UNCHANGED <<args, a, badArgs, ret, stderr, calls, promise>>

MainInit ==
  /\ pc = "start"
  /\ Len(args) > 0
  /\ args[1] = C_init
  /\ Dispatch("init", parseInitArgs(Tail(args)))

MainMake ==
  /\ pc = "start"
  /\ Len(args) > 0
  /\ args[1] = C_make
  /\ Dispatch("make", parseMakeArgs(Tail(args)))

MainRun ==
  /\ pc = "start"
  /\ Len(args) > 0
  /\ args[1] = C_run
  /\ Dispatch("run", parseRunArgs(Tail(args)))

MainDis ==
  /\ pc = "start"
  /\ Len(args) > 0
  /\ args[1] = C_dis
  /\ Dispatch("dis", parseDisArgs(Tail(args)))

MainItest ==
  /\ pc = "start"
  /\ Len(args) > 0
  /\ args[1] = C_itest
  /\ Dispatch("itest", parseItestArgs(Tail(args)))

MainUnknown ==
  /\ pc = "start"
  /\ Len(args) > 0
  /\ args[1] \notin {T_h, T_help, T_v, T_version, C_init, C_make, C_run, C_dis, C_itest}
  /\ stderr' = Append(stderr, Msg("Unknown command: ", args[1]))
  /\ exit' = 1
  /\ pc' = "done"
  /\ UNCHANGED <<args, a, badArgs, ret, stdout, calls, promise>>

\* the collaborator that was called produces its exit code
CollaboratorResolves ==
  /\ pc = "await"
  /\ promise.state = "pending"
  /\ \E c \in CollabCodes : promise' = [state |-> "resolved", code |-> c]
  /\ UNCHANGED <<args, pc, a, badArgs, ret, stdout, stderr, calls, exit>>

\* main returning 0 whatever the collaborator produced
MainAwaitReturn_Zero ==
  /\ pc = "await"
  /\ promise.state = "resolved"
  /\ exit' = 0
  /\ pc' = "done"
  /\ UNCHANGED <<args, a, badArgs, ret, stdout, stderr, calls, promise>>

\* `return await fn(descriptor)`
MainAwaitReturn ==
  /\ pc = "await"
  /\ promise.state = "resolved"
  /\ exit' = promise.code
  /\ pc' = "done"
  /\ UNCHANGED <<args, a, badArgs, ret, stdout, stderr, calls, promise>>

Next ==
  \/ MainHelp
  \/ MainVersion
  \/ MainInit
  \/ MainMake
  \/ MainRun
  \/ MainDis
  \/ MainItest
  \/ MainUnknown
  \/ CollaboratorResolves
  \/ MainAwaitReturn

Spec == Init /\ [][Next]_vars

\* --------------------------------------------------------------------------
\* Vocabulary of the properties
\* --------------------------------------------------------------------------
\* the validator of command c has run on Tail(args)
Ran(c) == pc # "start" /\ Len(args) > 0 /\ args[1] = c

Rest == Tail(args)

IsDesc == ~ret.isNum

Returned(n) == ret.isNum /\ ret.num = n

HelpTokens == {T_h, T_help}

\* the flag tokens each command declares
Declared(c) ==
  IF c = C_init THEN {T_h, T_help, T_overwrite, T_t, T_i, T_m, T_v, T_r, T_c}
  ELSE IF c = C_make THEN {T_h, T_help, T_o, T_output_r, T_d, T_w, T_watch, T_x}
  ELSE IF c = C_run THEN {T_h, T_help, T_d, T_w, T_watch}
  ELSE IF c = C_dis THEN {T_h, T_help, T_o, T_output_r, T_f}
  ELSE {T_h, T_help}

HelpText(c) ==
  IF c = C_init THEN "InitHelp"
  ELSE IF c = C_make THEN "MakeHelp"
  ELSE IF c = C_run THEN "RunHelp"
  ELSE IF c = C_dis THEN "DisHelp"
  ELSE "ItestHelp"

Commands == {C_init, C_make, C_run, C_dis, C_itest}

\* index of the first token that is not shaped like a flag, 0 when none
FirstOperand(s) ==
  IF \E i \in 1..Len(s) : ~IsFlag(s[i])
  THEN CHOOSE i \in 1..Len(s) : ~IsFlag(s[i]) /\ \A j \in 1..(i - 1) : IsFlag(s[j])
  ELSE 0

\* the part of the list in which flags are looked for: all of it, or for
\* itest the tokens before the first operand
Scanned(c, s) ==
  IF c = C_itest /\ FirstOperand(s) > 0 THEN SubSeq(s, 1, FirstOperand(s) - 1) ELSE s

HelpAnywhere(s) == \E i \in 1..Len(s) : s[i] \in HelpTokens

NoUnknownFlag(c, s) == \A i \in 1..Len(s) : IsFlag(s[i]) => s[i] \in Declared(c)

\* --------------------------------------------------------------------------
\* C1
\* --------------------------------------------------------------------------
\* C1 (as stated): for every command, when -h or --help appears anywhere in
\* the argument list, the validator returns 0 with the help shown and no
\* usage error, whatever else the list holds.
C1_HelpAnywhereShortCircuits ==
  \A c \in Commands :
    (Ran(c) /\ HelpAnywhere(Rest)) =>
      Returned(0) /\ stdout = <<HelpText(c)>> /\ stderr = <<>>

\* C1 (amended): when -h or --help appears among the tokens scanned for
\* flags (for itest: before the first operand) and none of the scanned
\* flags is unrecognized, the validator returns 0 with the help shown and
\* no usage error, also when the operands, a field or a -d token are invalid.
C1_HelpShortCircuitsValidation ==
  \A c \in Commands :
    (Ran(c) /\ HelpAnywhere(Scanned(c, Rest)) /\ NoUnknownFlag(c, Scanned(c, Rest))) =>
      Returned(0) /\ stdout = <<HelpText(c)>> /\ stderr = <<>>

\* help wins over a title that is too long and a missing operand
C1_Witness ==
  /\ Ran(C_init)
  /\ HelpAnywhere(Rest)
  /\ a.title.set /\ Len(a.title.val) > 12
  /\ Len(a["_"]) = 0
  /\ Returned(0)

\* --------------------------------------------------------------------------
\* C2
\* --------------------------------------------------------------------------
\* C2: init with one operand x and no flags returns the descriptor with the
\* defaults title "Game", initials "Ga", maker "77", version 0, region "E",
\* code "C", overwrite false; whenever -i is not given the initials are the
\* first two characters of (effective title + "AA").
C2_InitDefaults ==
  (Ran(C_init) /\ IsDesc) =>
    /\ (Len(Rest) = 1 =>
          ret.args = [output |-> Rest[1], title |-> S_Game, initials |-> <<"G", "a">>,
                      maker |-> S_77, version |-> 0, region |-> S_E, code |-> S_C,
                      overwrite |-> FALSE])
    /\ (~a.initials.set => ret.args.initials = substr(ret.args.title \o S_AA, 2))

\* --------------------------------------------------------------------------
\* C3
\* --------------------------------------------------------------------------
InitFieldsOK(d) ==
  /\ Len(d.title) <= 12
  /\ Len(d.initials) = 2
  /\ Len(d.maker) = 2
  /\ d.version \in 0..255
  /\ Len(d.region) = 1
  /\ Len(d.code) = 1

\* a field of the init command line violates its constraint
InitFieldViolated ==
  \/ a.title.set /\ Len(a.title.val) > 12
  \/ a.initials.set /\ Len(a.initials.val) # 2
  \/ a.maker.set /\ Len(a.maker.val) # 2
  \/ a.version.set /\ (parseInt(a.version.val).nan \/ parseInt(a.version.val).n \notin 0..255)
  \/ a.region.set /\ Len(a.region.val) # 1
  \/ a.code.set /\ Len(a.code.val) # 1

InitNeverInvokedBadly ==
  /\ (Ran(C_init) /\ IsDesc) => InitFieldsOK(ret.args)
  /\ \A k \in 1..Len(calls) : calls[k].fn = "init" => InitFieldsOK(calls[k].args)
  /\ (Ran(C_init) /\ InitFieldViolated) => ret.isNum /\ calls = <<>>

\* C3 (as stated): every Init descriptor returned or handed to the init
\* collaborator satisfies all six field constraints, and when a field
\* violates its constraint the result is exit code 1 with init not invoked.
C3_InitConstraintsExitOne ==
  /\ InitNeverInvokedBadly
  /\ (Ran(C_init) /\ InitFieldViolated) => Returned(1)

\* C3 (amended): every Init descriptor returned or handed to the init
\* collaborator satisfies all six field constraints; when a field violates
\* its constraint init is not invoked and the result is exit code 1, except
\* that it is exit code 0 when help was requested and no flag is unrecognized.
C3_InitConstraints ==
  /\ InitNeverInvokedBadly
  /\ (Ran(C_init) /\ InitFieldViolated) =>
       IF a.help /\ ~badArgs THEN Returned(0) ELSE Returned(1)

\* one operand, a maker of one character, nothing else wrong: exit code 1
C3_Witness ==
  /\ Ran(C_init)
  /\ Len(a["_"]) = 1
  /\ ~a.help /\ ~badArgs
  /\ a.maker.set /\ Len(a.maker.val) = 1
  /\ ~a.title.set /\ ~a.initials.set /\ ~a.version.set
  /\ Returned(1)
  /\ calls = <<>>

\* --------------------------------------------------------------------------
\* C4
\* --------------------------------------------------------------------------
OperandOf(c, d) == IF c = C_init THEN d.output ELSE d.input

\* C4: for init, make, run and dis, when help is not requested and no flag is
\* unrecognized, a descriptor is returned only for exactly one operand, which
\* is its output (init) or input (make, run, dis); zero operands or more than
\* one give exit code 1.
C4_ExactlyOneOperand ==
  \A c \in {C_init, C_make, C_run, C_dis} :
    (Ran(c) /\ ~a.help /\ ~badArgs) =>
      /\ IsDesc => (Len(a["_"]) = 1 /\ OperandOf(c, ret.args) = a["_"][1])
      /\ Len(a["_"]) # 1 => Returned(1)

\* two operands and nothing else wrong
C4_Witness ==
  /\ Ran(C_dis)
  /\ ~a.help /\ ~badArgs
  /\ Len(a["_"]) = 2
  /\ Returned(1)
  /\ stderr = <<Msg("Can only have one input file", <<>>)>>

\* --------------------------------------------------------------------------
\* C5
\* --------------------------------------------------------------------------
\* C5: the Run descriptor carries a watch field, true when -w or --watch is
\* in the argument list and false when it is not.
C5_RunWatch ==
  (Ran(C_run) /\ IsDesc) =>
    /\ "watch" \in DOMAIN ret.args
    /\ ret.args.watch = (\E i \in 1..Len(Rest) : Rest[i] \in {T_w, T_watch})

\* --------------------------------------------------------------------------
\* C6
\* --------------------------------------------------------------------------
\* the operand of each -d occurrence of the list, in the order of the
\* occurrences; an occurrence that no operand follows has the empty operand
RECURSIVE DefineOperands(_)
DefineOperands(s) ==
  IF s = <<>> THEN <<>>
  ELSE IF Head(s) = T_d
  THEN <<IF Len(s) >= 2 /\ ~IsFlag(s[2]) THEN s[2] ELSE <<>>>> \o DefineOperands(Tail(s))
  ELSE DefineOperands(Tail(s))

\* NAME=VALUE with a NAME that is not empty
WellFormedDefine(tok) ==
  /\ Len(tok) >= 2
  /\ tok[1] # "="
  /\ \E k \in 2..Len(tok) : tok[k] = "="

\* d is the Define that the well-formed token tok denotes
DefineOf(tok, d) ==
  LET k == CHOOSE k \in 2..Len(tok) : tok[k] = "=" /\ \A j \in 1..(k - 1) : tok[j] # "="
      text == SubSeq(tok, k + 1, Len(tok))
  IN /\ d.name = SubSeq(tok, 1, k - 1)
     /\ IF IsIntLiteral(text)
        THEN d.value.isInt /\ d.value.num = parseInt(text).n
        ELSE ~d.value.isInt /\ d.value.str = text

FirstMalformed(toks) ==
  CHOOSE i \in 1..Len(toks) :
    ~WellFormedDefine(toks[i]) /\ \A j \in 1..(i - 1) : WellFormedDefine(toks[j])

DefinesInOrder(c) ==
  LET toks == DefineOperands(Rest)
  IN (Ran(c) /\ IsDesc) =>
       /\ Len(ret.args.defines) = Len(toks)
       /\ \A i \in 1..Len(toks) :
            WellFormedDefine(toks[i]) /\ DefineOf(toks[i], ret.args.defines[i])

SomeMalformed == \E i \in 1..Len(DefineOperands(Rest)) : ~WellFormedDefine(DefineOperands(Rest)[i])

NamesFirstMalformed ==
  stderr = <<Msg("Invalid define: ", DefineOperands(Rest)[FirstMalformed(DefineOperands(Rest))])>>

\* C6 (as stated): the defines of a make or run descriptor are one Define per
\* -d occurrence, in command-line order, duplicates kept, none when there is
\* no -d; when a -d token is malformed the result is exit code 1 with one
\* error that names the first malformed token.
C6_DefinesOrderedFirstFailureExitOne ==
  \A c \in {C_make, C_run} :
    /\ DefinesInOrder(c)
    /\ (Ran(c) /\ SomeMalformed) => Returned(1) /\ NamesFirstMalformed

\* C6 (amended): the defines of a make or run descriptor are one Define per
\* -d occurrence, in command-line order, duplicates kept, none when there is
\* no -d; when a -d token is malformed no descriptor is produced and the
\* result is exit code 1, except exit code 0 when help was requested and no
\* flag is unrecognized; when help was not requested, no flag is unrecognized
\* and there is exactly one operand, the only error names the first
\* malformed token.
C6_DefinesOrderedFirstFailure ==
  \A c \in {C_make, C_run} :
    /\ DefinesInOrder(c)
    /\ (Ran(c) /\ SomeMalformed) =>
         /\ IF a.help /\ ~badArgs THEN Returned(0) ELSE Returned(1)
         /\ (~a.help /\ ~badArgs /\ Len(a["_"]) = 1) => NamesFirstMalformed

\* the same NAME twice, kept in order with the integer typed
C6_Witness ==
  /\ Ran(C_make)
  /\ IsDesc
  /\ ret.args.defines =
       <<[name |-> <<"F">>, value |-> [isInt |-> TRUE, num |-> 1, str |-> <<>>]],
         [name |-> <<"F">>, value |-> [isInt |-> FALSE, num |-> 0, str |-> <<"b">>]]>>

\* --------------------------------------------------------------------------
\* C7
\* --------------------------------------------------------------------------
FormatGiven == \E i \in 1..Len(Rest) : Rest[i] = T_f

BadFormat == a.format.set /\ a.format.val \notin {S_gba, S_bin}

DisFormatChecked ==
  /\ (Ran(C_dis) /\ IsDesc) =>
       /\ ret.args.format \in {S_gba, S_bin}
       /\ ~FormatGiven => ret.args.format = S_gba
       /\ FormatGiven => ret.args.format = a.format.val
  /\ \A k \in 1..Len(calls) : calls[k].fn = "dis" => calls[k].args.format \in {S_gba, S_bin}
  /\ (Ran(C_dis) /\ BadFormat) => ret.isNum /\ calls = <<>>

\* C7 (as stated): a Dis descriptor has format "gba" (no -f) or the given
\* "gba" or "bin"; any other -f value gives exit code 1, no descriptor and no
\* call of dis.
C7_DisFormatExitOne ==
  /\ DisFormatChecked
  /\ (Ran(C_dis) /\ BadFormat) => Returned(1)

\* C7 (amended): a Dis descriptor has format "gba" (no -f) or the given
\* "gba" or "bin"; any other -f value gives no descriptor and no call of dis,
\* and the result is exit code 1, except exit code 0 when help was requested
\* and no flag is unrecognized.
C7_DisFormat ==
  /\ DisFormatChecked
  /\ (Ran(C_dis) /\ BadFormat) =>
       IF a.help /\ ~badArgs THEN Returned(0) ELSE Returned(1)

\* dis <input> -f xyz
C7_Witness ==
  /\ Ran(C_dis)
  /\ Len(a["_"]) = 1
  /\ ~a.help /\ ~badArgs
  /\ a.format.set /\ a.format.val = V_xyz
  /\ Returned(1)
  /\ stderr = <<Msg("Invalid format", V_xyz)>>
  /\ calls = <<>>

\* --------------------------------------------------------------------------
\* C8
\* --------------------------------------------------------------------------
NameOf(c) ==
  IF c = C_init THEN "init"
  ELSE IF c = C_make THEN "make"
  ELSE IF c = C_run THEN "run"
  ELSE IF c = C_dis THEN "dis"
  ELSE "itest"

FirstIs(S) == IF Len(args) > 0 THEN args[1] \in S ELSE FALSE

\* C8: main invokes at most one collaborator, only after the validator of the
\* command named by the first token returned a descriptor, the collaborator
\* of that command with that descriptor, and returns the exit code the
\* collaborator produces; a help or usage-error result is returned with no
\* collaborator invoked; no first token, -h, --help, -v and --version return
\* 0 and any other first token that is no command returns 1, with no
\* collaborator invoked.
C8_Dispatch ==
  /\ Len(calls) <= 1
  /\ calls # <<>> =>
       /\ pc # "start"
       /\ FirstIs(Commands)
       /\ IsDesc
       /\ calls[1].fn = NameOf(args[1])
       /\ calls[1].args = ret.args
  /\ (pc = "done" /\ calls # <<>>) => (promise.state = "resolved" /\ exit = promise.code)
  /\ (pc # "start" /\ FirstIs(Commands) /\ ret.isNum) =>
       (calls = <<>> /\ pc = "done" /\ exit = ret.num)
  /\ (pc = "done" /\ (args = <<>> \/ FirstIs({T_h, T_help, T_v, T_version}))) =>
       (exit = 0 /\ calls = <<>>)
  /\ (pc = "done" /\ args # <<>> /\ ~FirstIs({T_h, T_help, T_v, T_version} \cup Commands)) =>
       (exit = 1 /\ calls = <<>>)

\* main returned a collaborator's exit code that no validator returns
C8_Witness ==
  /\ pc = "done"
  /\ FirstIs({C_run})
  /\ calls # <<>>
  /\ calls[1].fn = "run"
  /\ exit = 2

\* --------------------------------------------------------------------------
\* C9
\* --------------------------------------------------------------------------
OutputTokens == {T_o, T_output_r}

OutputGiven(s) == \E i \in 1..Len(s) : s[i] \in OutputTokens

\* the value of the last -o/--output occurrence of the list
LastOutput(s) ==
  LET i == CHOOSE i \in 1..Len(s) :
             s[i] \in OutputTokens /\ \A j \in (i + 1)..Len(s) : s[j] \notin OutputTokens
  IN IF s[i] = T_output_r THEN <<"r">>
     ELSE IF i < Len(s) /\ ~IsFlag(s[i + 1]) THEN s[i + 1]
     ELSE <<>>

\* position of the "." that starts the trailing extension of path, 0 if none
ExtensionDot(path) ==
  IF \E k \in 2..Len(path) :
       /\ path[k] = "." /\ path[k - 1] # "/"
       /\ \A j \in (k + 1)..Len(path) : path[j] \notin {".", "/"}
  THEN CHOOSE k \in 2..Len(path) :
       /\ path[k] = "." /\ path[k - 1] # "/"
       /\ \A j \in (k + 1)..Len(path) : path[j] \notin {".", "/"}
  ELSE 0

\* out is path with its trailing extension, if any, replaced by ext
ExtensionReplaced(path, out, ext) ==
  LET stem == IF ExtensionDot(path) > 0 THEN SubSeq(path, 1, ExtensionDot(path) - 1) ELSE path
  IN out = stem \o ext

\* C9: without -o the output of make is the input with its trailing
\* extension, if any, replaced by ".gba" and that of dis the input with it
\* replaced by ".gvasm" (appended when the input has none); with -o the
\* output is the given value, that of the last occurrence.
C9_DefaultOutput ==
  \A c \in {C_make, C_dis} :
    (Ran(c) /\ IsDesc) =>
      IF OutputGiven(Rest)
      THEN ret.args.output = LastOutput(Rest)
      ELSE ExtensionReplaced(ret.args.input, ret.args.output,
                             IF c = C_make THEN Ext_gba ELSE Ext_gvasm)

\* make a.gv yields a.gba
C9_Witness ==
  /\ Ran(C_make)
  /\ IsDesc
  /\ ~OutputGiven(Rest)
  /\ ret.args.input = V_agv
  /\ ret.args.output = <<"a", ".", "g", "b", "a">>

\* --------------------------------------------------------------------------
\* C10
\* --------------------------------------------------------------------------
\* C10: for itest every token from the first operand on is an operand, also
\* one shaped like a flag: the filters of the descriptor are the first
\* operand and all later tokens in order, those tokens raise no unknown-flag
\* error, and the empty argument list yields no filters.
C10_ItestStopEarly ==
  Ran(C_itest) =>
    LET f == FirstOperand(Rest)
        before == SubSeq(Rest, 1, IF f > 0 THEN f - 1 ELSE Len(Rest))
    IN /\ (IsDesc /\ f > 0) => ret.args.filters = SubSeq(Rest, f, Len(Rest))
       /\ (IsDesc /\ f = 0) => ret.args.filters = <<>>
       /\ NoUnknownFlag(C_itest, before) => stderr = <<>>
       /\ (~HelpAnywhere(before) /\ NoUnknownFlag(C_itest, before)) => IsDesc
       /\ Rest = <<>> => (IsDesc /\ ret.args.filters = <<>>)

\* an unknown flag and a help flag after the first operand are filters
C10_Witness ==
  /\ Ran(C_itest)
  /\ IsDesc
  /\ ret.args.filters = <<V_foo, T_z, T_h>>

====
